---- MODULE Spec2Model ----
(***************************************************************************)
(* loudgainer: ReplayGain scanning (decode -> measure -> gain -> clip      *)
(* prevention -> tag).  Model of src/src/{main,replay_gain,audio,options}. *)
(*                                                                         *)
(* Numbers.  The program computes in f64.  The model computes in fixed     *)
(* point: every decibel quantity (gain, loudness, range, pre-gain, ceiling)*)
(* is an integer count of 1/DbScale dB, every linear amplitude (peak) an   *)
(* integer count of 1/AmpScale.  powf and log10 are computed (range        *)
(* reduction and a power series in 1/FixScale fixed point) and rounded to  *)
(* the nearest representable value, as the f64 library functions are, so   *)
(* a dB -> amplitude -> dB round trip loses what rounding loses.           *)
(***************************************************************************)
EXTENDS Integers, Sequences, FiniteSets, TLC

(* ------------------------------------------------------------------ *)
(* Fixed-point arithmetic standing for f64                             *)
(* ------------------------------------------------------------------ *)
DbScale == 100
AmpScale == 1000
FixScale == 32768
\* ln 2, log2 10 and 1 / ln 10, in units of 1/FixScale
Ln2Fix == 22713
Log2Of10Fix == 108853
InvLn10Fix == 14231
ExpTerms == 10
AtanhTerms == 6

Abs(x) == IF x < 0 THEN -x ELSE x
Min(a, b) == IF a < b THEN a ELSE b
Max(a, b) == IF a < b THEN b ELSE a

\* a / b rounded to the nearest integer (b > 0), the rounding of one f64 operation
RoundDiv(a, b) == (a + (b \div 2)) \div b

RECURSIVE Pow2(_)
Pow2(i) == IF i <= 0 THEN 1 ELSE 2 * Pow2(i - 1)

\* sum over k >= from of x^k / k!, given the previous term t
RECURSIVE ExpSum(_, _, _)
ExpSum(t, x, k) ==
    IF k > ExpTerms THEN 0
    ELSE LET t2 == RoundDiv(t * x, FixScale * k) IN t2 + ExpSum(t2, x, k + 1)

\* e^x for x in [0, ln 2], x and the result in units of 1/FixScale
ExpSeries(x) == FixScale + ExpSum(FixScale, x, 1)

\* 2^y as an amplitude, y in units of 1/FixScale
Exp2(y) ==
    LET i == y \div FixScale
        f == y % FixScale
        m == ExpSeries(RoundDiv(f * Ln2Fix, FixScale))
    IN  IF i >= 0 THEN RoundDiv(m * AmpScale * Pow2(i), FixScale)
        ELSE RoundDiv(m * AmpScale, FixScale * Pow2(-i))

\* 10.0_f64.powf(n / d): n a dB quantity, the result an amplitude
powf10(n, d) == Exp2(RoundDiv(n * Log2Of10Fix, d * DbScale))

\* sum over j >= from of z^(2j+1) / (2j+1), given the previous odd power p
RECURSIVE AtanhSum(_, _, _)
AtanhSum(p, z2, j) ==
    IF j > AtanhTerms THEN 0
    ELSE LET p2 == RoundDiv(p * z2, FixScale)
         IN  RoundDiv(p2, 2 * j + 1) + AtanhSum(p2, z2, j + 1)

\* the k with 2^k <= a / AmpScale < 2^(k+1), for a >= AmpScale
RECURSIVE Ilog2(_, _)
Ilog2(a, k) == IF a >= AmpScale * Pow2(k + 1) THEN Ilog2(a, k + 1) ELSE k

\* the k < 0 with 2^k <= a / AmpScale < 2^(k+1), for 0 < a < AmpScale
RECURSIVE IlogNeg(_, _)
IlogNeg(a, k) == IF a * Pow2(-k) < AmpScale THEN IlogNeg(a, k - 1) ELSE k

\* ln(a / AmpScale) in units of 1/FixScale, for an amplitude a > 0
LnFix(a) ==
    LET k == IF a >= AmpScale THEN Ilog2(a, 0) ELSE IlogNeg(a, -1)
        m == IF k >= 0 THEN RoundDiv(a * FixScale, AmpScale * Pow2(k))
             ELSE RoundDiv(a * Pow2(-k) * FixScale, AmpScale)
        z == RoundDiv((m - FixScale) * FixScale, m + FixScale)
        z2 == RoundDiv(z * z, FixScale)
    IN  k * Ln2Fix + 2 * (z + AtanhSum(z, z2, 1))

\* n.log10() for an amplitude n > 0, in units of 1/FixScale
log10(n) == RoundDiv(LnFix(n) * InvLn10Fix, FixScale)

\* a * b and a / b on amplitudes
AmpMul(a, b) == RoundDiv(a * b, AmpScale)
AmpDiv(a, b) == RoundDiv(a * AmpScale, b)

(* ------------------------------------------------------------------ *)
(* replay_gain.rs: conversions                                         *)
(* ------------------------------------------------------------------ *)
lufs_to_rg_Plus(l) == (-18 * DbScale) + l
lufs_to_rg(l) == (-18 * DbScale) - l

\* 20 * log10(n): linear amplitude to decibels
lufs_to_dbtp(n) == RoundDiv(20 * DbScale * log10(n), FixScale)

\* 10 ** (n / 20): decibels to linear amplitude
dbtp_to_lufs(n) == powf10(n, 20)

(* ------------------------------------------------------------------ *)
(* replay_gain.rs: ReplayGain::clipper                                 *)
(* ------------------------------------------------------------------ *)
\* new peak after gain
NewPeak(self) == AmpMul(dbtp_to_lufs(self.gain), self.peak)

\* the branch `new_peak > peak_limit`
WillClip(self, max_true_peak_level) ==
    NewPeak(self) > dbtp_to_lufs(max_true_peak_level)

\* variant: subtracts the predicted peak's level instead of its excess over the ceiling
clipper_NoClamp(self, max_true_peak_level, warn, prevent) ==
    IF WillClip(self, max_true_peak_level) /\ prevent
    THEN [self EXCEPT !.gain = self.gain - lufs_to_dbtp(NewPeak(self))]
    ELSE self

\* variant: also stores the clamped peak in the returned record
clipper_ClampsPeak(self, max_true_peak_level, warn, prevent) ==
    LET peak_limit == dbtp_to_lufs(max_true_peak_level)
        new_peak == NewPeak(self)
    IN  IF new_peak > peak_limit /\ prevent
        THEN LET new_new_peak == Min(new_peak, peak_limit)
             IN  [self EXCEPT !.gain = self.gain - lufs_to_dbtp(AmpDiv(new_peak, new_new_peak)),
                              !.peak = new_new_peak]
        ELSE self

clipper(self, max_true_peak_level, warn, prevent) ==
    LET peak_limit == dbtp_to_lufs(max_true_peak_level)
        new_peak == NewPeak(self)
    IN  IF new_peak > peak_limit /\ prevent
        THEN LET new_new_peak == Min(new_peak, peak_limit)
             IN  [self EXCEPT !.gain = self.gain - lufs_to_dbtp(AmpDiv(new_peak, new_new_peak))]
        ELSE self

\* whether the call logs warn!("The track will clip!")
clipper_warns(self, max_true_peak_level, warn, prevent) ==
    WillClip(self, max_true_peak_level) /\ ~prevent /\ warn

(* ------------------------------------------------------------------ *)
(* replay_gain.rs: track_rg and album_rg                               *)
(* ------------------------------------------------------------------ *)
\* Option<T>: None is <<>>, Some(x) is <<x>>
None == <<>>
Some(x) == <<x>>

\* Result of a call: Ok(value), Err (returned to the caller) or a panic inside it
Ok(x) == [tag |-> "Ok", val |-> <<x>>]
Err == [tag |-> "Err", val |-> <<>>]
Panic == [tag |-> "Panic", val |-> <<>>]

RECURSIVE FoldMax(_, _)
FoldMax(s, acc) == IF s = <<>> THEN acc ELSE FoldMax(Tail(s), Max(acc, Head(s)))

RECURSIVE FoldMin(_, _)
FoldMin(s, acc) == IF s = <<>> THEN acc ELSE FoldMin(Tail(s), Min(acc, Head(s)))

\* Iterator::reduce(f64::max): None on an empty iterator
ReduceMax(s) == IF s = <<>> THEN None ELSE Some(FoldMax(Tail(s), Head(s)))

\* variant: a reduction that keeps the smaller value
ReduceMin(s) == IF s = <<>> THEN None ELSE Some(FoldMin(Tail(s), Head(s)))

\* variant: stores the negated pre-gain as the reference
track_rg_NegPregain(file, pregain) ==
    IF file.decode = "panic" THEN Panic
    ELSE IF file.engine = "err" THEN Err
    ELSE Ok([gain |-> lufs_to_rg(file.global) + pregain,
             peak |-> ReduceMax(file.true_peak)[1],
             loudness |-> file.global,
             loudness_range |-> file.range,
             loudness_reference |-> -pregain])

\* track_rg(path, pregain), on the file the path names.  file.decode is the outcome of
\* Audi::from_path, file.engine that of the EbuR128 calls, file.global / range /
\* true_peak what the engine measures.  The EbuR128 context is returned beside the
\* record; the caller keeps it under the file's index.
track_rg(file, pregain) ==
    IF file.decode = "panic" THEN Panic
    ELSE IF file.engine = "err" THEN Err
    ELSE IF ReduceMax(file.true_peak) = None THEN Panic
    ELSE Ok([gain |-> lufs_to_rg(file.global) + pregain,
             peak |-> ReduceMax(file.true_peak)[1],
             loudness |-> file.global,
             loudness_range |-> file.range,
             loudness_reference |-> lufs_to_rg(-pregain)])

ScanPeaks(scans) == [k \in 1..Len(scans) |-> scans[k].rg.peak]

\* variant: takes the album peak with a reduction that keeps the smaller value
album_rg_MinPeak(scans, pregain, pooled) ==
    IF pooled.engine = "err" THEN Err
    ELSE IF ReduceMin(ScanPeaks(scans)) = None THEN Panic
    ELSE Ok([gain |-> lufs_to_rg(pooled.global) + pregain,
             peak |-> ReduceMin(ScanPeaks(scans))[1],
             loudness |-> pooled.global,
             loudness_range |-> pooled.range,
             loudness_reference |-> lufs_to_rg(-pregain)])

\* album_rg(scans, pregain); pooled is what EbuR128::loudness_global_multiple and
\* loudness_range_multiple return for the contexts of scans
album_rg(scans, pregain, pooled) ==
    IF pooled.engine = "err" THEN Err
    ELSE IF ReduceMax(ScanPeaks(scans)) = None THEN Panic
    ELSE Ok([gain |-> lufs_to_rg(pooled.global) + pregain,
             peak |-> ReduceMax(ScanPeaks(scans))[1],
             loudness |-> pooled.global,
             loudness_range |-> pooled.range,
             loudness_reference |-> lufs_to_rg(-pregain)])

(* ------------------------------------------------------------------ *)
(* audio.rs                                                            *)
(* ------------------------------------------------------------------ *)
\* the four variants of Audio, AudioRef and AudioSampleBuffer
Domain == {"S16", "S32", "F32", "F64"}
\* the variants of symphonia's AudioBufferRef
Format == {"U8", "U16", "U24", "U32", "S8", "S16", "S24", "S32", "F32", "F64"}

\* a Vec<T> or &[T]: every element carries its type T with its value
Typed(dom, s) == [k \in 1..Len(s) |-> <<dom, s[k]>>]

\* AudioRef::from_i16 / from_i32 / from_f32 / from_f64
AudioRef(dom, s) == [tag |-> dom, data |-> Typed(dom, s)]

\* AudioRef::get_i16 / get_i32 / get_f32 / get_f64, dom naming which one
get(samples, dom) == IF samples.tag = dom THEN Some(samples.data) ELSE None

\* AudioRef::to_owned
to_owned(samples) == [tag |-> samples.tag, data |-> samples.data]

\* variant: appends whatever the slice holds, without the variant check
extend_from_slice_Unchecked(self, samples) ==
    Ok([self EXCEPT !.data = self.data \o samples.data])

\* Audio::extend_from_slice: x.extend_from_slice(samples.get_T().unwrap())
extend_from_slice(self, samples) ==
    LET got == get(samples, self.tag)
    IN  IF got = None THEN Panic
        ELSE Ok([self EXCEPT !.data = self.data \o got[1]])

\* variant: sends the 24-bit formats to the 16-bit domain
AudioSampleBuffer_new_Narrow(fmt) ==
    CASE fmt \in {"U8", "U16", "S8", "S16", "U24", "S24"} -> "S16"
      [] fmt \in {"U32", "S32"} -> "S32"
      [] fmt = "F32" -> "F32"
      [] fmt = "F64" -> "F64"

\* AudioSampleBuffer::new: the variant created for a decoded buffer of format fmt
AudioSampleBuffer_new(fmt) ==
    CASE fmt = "U8" -> "S16"
      [] fmt = "U16" -> "S16"
      [] fmt = "U24" -> "S32"
      [] fmt = "U32" -> "S32"
      [] fmt = "S8" -> "S16"
      [] fmt = "S16" -> "S16"
      [] fmt = "S24" -> "S32"
      [] fmt = "S32" -> "S32"
      [] fmt = "F32" -> "F32"
      [] fmt = "F64" -> "F64"

\* f as i16
AsI16(v) == ((v + 32768) % 65536) - 32768

\* f << n on i32, for the samples of a stream of (32 - n) bits, which cannot overflow
Shl(v, n) == v * Pow2(n)

\* r.samples().map(|f| f.unwrap() ..).collect(): a panic at the first Err sample
AllRead(samples) == \A k \in 1..Len(samples) : samples[k] # None

\* Audi::from_flac_file, on what claxon reports for the file
from_flac_file(file) ==
    IF ~file.reader_ok THEN Panic
    ELSE LET bits == file.bits_per_sample % 256
             info == [channels |-> file.channels, sample_rate |-> file.sample_rate,
                      bits |-> bits]
         IN  IF bits <= 16
             THEN IF ~AllRead(file.samples) THEN Panic
                  ELSE Ok(info @@
                          [audio |-> AudioRef("S16",
                              [k \in 1..Len(file.samples) |-> AsI16(file.samples[k][1])])])
             ELSE IF bits <= 32
             THEN IF ~AllRead(file.samples) THEN Panic
                  ELSE Ok(info @@
                          [audio |-> AudioRef("S32",
                              [k \in 1..Len(file.samples) |->
                                  Shl(file.samples[k][1], 32 - bits)])])
             ELSE Panic

(* ------------------------------------------------------------------ *)
(* options.rs                                                          *)
(* ------------------------------------------------------------------ *)
Tagmode == {"D", "I", "E", "L", "S"}

\* parse_arguments: MyOptions -> Opts
parse_arguments(o) ==
    [pre_gain |-> 0,
     max_true_peak_level |-> -1 * DbScale,
     files |-> o.files,
     output |-> IF o.output THEN "Old" ELSE IF o.output_new THEN "New" ELSE "Human",
     units |-> IF o.tagmode = "L" THEN "LU" ELSE "dB",
     mode |-> CASE o.tagmode = "D" -> "Delete"
                [] o.tagmode = "I" -> "WriteExtended"
                [] o.tagmode = "E" -> "WriteExtended"
                [] o.tagmode = "L" -> "Write"
                [] o.tagmode = "S" -> "Noop"]

(* ------------------------------------------------------------------ *)
(* State                                                               *)
(* ------------------------------------------------------------------ *)
VARIABLES
    clipIn,     \* clipper: the record it is called on (&self)
    clipCfg,    \* clipper: [level, warn, prevent]
    clipOut,    \* clipper: the records returned so far, in call order
    clipLog,    \* clipper: number of warnings logged
    args,       \* main: the parsed command line (MyOptions)
    disk,       \* main: what each path of the command line holds
    opts,       \* main: Opts, as parse_arguments returns it
    cfg,        \* main: opts.do_album, opts.warn_clip, opts.clip_prevention, which
                \*       main reads and parse_arguments never sets
    pc,         \* main: "tracks" (line 22), "album" (28), "tag" (38), "done", "panicked"
    tracks,     \* main: Vec<(ReplayGain, EbuR128)>, the context named by its file index
    live,       \* main: the EbuR128 contexts that exist
    albumRaw,   \* main: what album_rg returned, before clipper
    album,      \* main: Option<ReplayGain>
    tagIdx,     \* main: iterations of the tag loop begun
    written,    \* main: the calls of tagger::write_tags, in order
    shown,      \* main: the records displayed, in order
    mainLog,    \* main: number of clipping warnings logged
    dfile,      \* decode: the file handed to Audi::from_file
    dpc,        \* decode: "start", "flac", "generic", "loop", "done", "panicked"
                \*         ("buffer" while extend_from_slice is exercised alone)
    pos,        \* decode: packets taken from the format reader
    sample_buf, \* decode: Option<AudioSampleBuffer>
    audio,      \* decode: Option<Audio>, the buffer being accumulated
    audi,       \* decode: the Audi returned, once there is one
    dlog,       \* decode: number of fallback warnings logged
    slice,      \* Audio::extend_from_slice: the slice of the last call
    created     \* Audio::extend_from_slice: the variant the buffer was created with

clipVars == <<clipIn, clipCfg, clipOut, clipLog>>
mainVars == <<args, disk, opts, cfg, pc, tracks, live, albumRaw, album, tagIdx,
              written, shown, mainLog>>
decodeVars == <<dfile, dpc, pos, sample_buf, audio, audi, dlog>>
audioVars == <<slice, created>>
vars == <<clipVars, mainVars, decodeVars, audioVars>>

(* ------------------------------------------------------------------ *)
(* Input bounds                                                        *)
(* ------------------------------------------------------------------ *)
MaxGainSteps == 24
GainStep == 50
MaxPeakSteps == 20
PeakStep == 100
MaxCeilingSteps == 4
CeilingStep == 50
MaxFiles == 2
MaxPregainSteps == 1
MaxBits == 34
MaxSamples == 2
MaxPackets == 3
MaxBufLen == 4

GainSet == {k * GainStep : k \in -MaxGainSteps..MaxGainSteps}
PeakSet == {k * PeakStep : k \in 0..MaxPeakSteps}
CeilingSet == {-(k * CeilingStep) : k \in 0..MaxCeilingSteps}
PregainSet == {k * 5 * DbScale : k \in -MaxPregainSteps..MaxPregainSteps}

\* what the engine can report for a file or for a set of contexts
LoudnessSet == {-23 * DbScale, -18 * DbScale}
RangeSet == {7 * DbScale}
TruePeakSet == {<<AmpScale \div 2>>, <<3 * (AmpScale \div 2), AmpScale>>}

\* the files a path can name
GoodFiles == [decode : {"ok"}, engine : {"ok"}, tagger : {"ok"},
              global : LoudnessSet, range : RangeSet, true_peak : TruePeakSet]
BadFiles ==
    LET g == [decode |-> "ok", engine |-> "ok", tagger |-> "ok", global |-> -18 * DbScale,
              range |-> 7 * DbScale, true_peak |-> <<AmpScale>>]
    IN  {[g EXCEPT !.decode = "panic"], [g EXCEPT !.engine = "err"],
         [g EXCEPT !.tagger = "panic"]}
FileSet == GoodFiles \cup BadFiles
FileOk(f) == f.decode = "ok" /\ f.engine = "ok"

PooledSet == [engine : {"ok"}, global : LoudnessSet, range : RangeSet]

DecodeIdle ==
    /\ dfile = <<>> /\ dpc = "idle" /\ pos = 0 /\ sample_buf = None /\ audi = None
    /\ dlog = 0
AudioIdle == slice = None /\ created = "none"
ClipIdle == clipIn = <<>> /\ clipCfg = <<>> /\ clipOut = <<>> /\ clipLog = 0
MainIdle ==
    /\ args = <<>> /\ disk = <<>> /\ opts = <<>> /\ cfg = <<>> /\ pc = "idle"
    /\ tracks = <<>> /\ live = {} /\ albumRaw = None /\ album = None /\ tagIdx = 0
    /\ written = <<>> /\ shown = <<>> /\ mainLog = 0

(* ------------------------------------------------------------------ *)
(* SpecClip: clipper applied to any record, and again to its result    *)
(* ------------------------------------------------------------------ *)
InitClip ==
    /\ clipIn \in [gain : GainSet, peak : PeakSet, loudness_range : {700},
                   loudness_reference : {-1800}, loudness : {-2300}]
    /\ clipCfg \in [level : CeilingSet, warn : BOOLEAN, prevent : BOOLEAN]
    /\ clipOut = <<>>
    /\ clipLog = 0
    /\ MainIdle /\ DecodeIdle /\ AudioIdle /\ audio = None

Clip ==
    /\ Len(clipOut) = 0
    /\ clipOut' = <<clipper(clipIn, clipCfg.level, clipCfg.warn, clipCfg.prevent)>>
    /\ clipLog' = clipLog
         + (IF clipper_warns(clipIn, clipCfg.level, clipCfg.warn, clipCfg.prevent) THEN 1 ELSE 0)
    /\ UNCHANGED <<clipIn, clipCfg, mainVars, decodeVars, audioVars>>

ClipAgain ==
    /\ Len(clipOut) = 1
    /\ clipOut' = Append(clipOut,
                    clipper(clipOut[1], clipCfg.level, clipCfg.warn, clipCfg.prevent))
    /\ clipLog' = clipLog
         + (IF clipper_warns(clipOut[1], clipCfg.level, clipCfg.warn, clipCfg.prevent) THEN 1 ELSE 0)
    /\ UNCHANGED <<clipIn, clipCfg, mainVars, decodeVars, audioVars>>

NextClip == Clip \/ ClipAgain

SpecClip == InitClip /\ [][NextClip]_vars

(* ------------------------------------------------------------------ *)
(* main.rs: fn main                                                    *)
(* ------------------------------------------------------------------ *)
NFiles == Len(opts.files)

\* variant: keeps only the record of each scan; the context is released at once
ScanTrack_DropsContext ==
    /\ pc = "tracks"
    /\ LET k == Len(tracks) + 1
           r == track_rg(disk[opts.files[k]], opts.pre_gain)
       IN  IF r.tag = "Ok"
           THEN /\ tracks' = Append(tracks, [rg |-> r.val[1], e |-> k])
                /\ live' = live
                /\ pc' = IF k = NFiles THEN "album" ELSE "tracks"
           ELSE /\ pc' = "panicked"
                /\ UNCHANGED <<tracks, live>>
    /\ UNCHANGED <<clipVars, args, disk, opts, cfg, albumRaw, album, tagIdx, written,
                   shown, mainLog, decodeVars, audioVars>>

\* lines 22-26, one call of the closure: track_rg(x, opts.pre_gain).unwrap().
\* A panic ends the process; the state then shows what existed when it happened.
ScanTrack ==
    /\ pc = "tracks"
    /\ LET k == Len(tracks) + 1
           r == track_rg(disk[opts.files[k]], opts.pre_gain)
       IN  IF r.tag = "Ok"
           THEN /\ tracks' = Append(tracks, [rg |-> r.val[1], e |-> k])
                /\ live' = live \cup {k}
                /\ pc' = IF k = NFiles THEN "album" ELSE "tracks"
           ELSE /\ pc' = "panicked"
                /\ UNCHANGED <<tracks, live>>
    /\ UNCHANGED <<clipVars, args, disk, opts, cfg, albumRaw, album, tagIdx, written,
                   shown, mainLog, decodeVars, audioVars>>

\* lines 28-36: album_rg(&tracks, opts.pre_gain).unwrap().clipper(..) if opts.do_album
Album ==
    /\ pc = "album"
    /\ IF cfg.do_album
       THEN \E pooled \in PooledSet :
              LET r == album_rg(tracks, opts.pre_gain, pooled)
              IN  IF r.tag = "Ok"
                  THEN /\ albumRaw' = Some(r.val[1])
                       /\ album' = Some(clipper(r.val[1], opts.max_true_peak_level,
                                                cfg.warn_clip, cfg.clip_prevention))
                       /\ mainLog' = mainLog
                            + (IF clipper_warns(r.val[1], opts.max_true_peak_level,
                                                cfg.warn_clip, cfg.clip_prevention)
                               THEN 1 ELSE 0)
                       /\ pc' = IF NFiles = 0 THEN "done" ELSE "tag"
                  ELSE /\ pc' = "panicked"
                       /\ UNCHANGED <<albumRaw, album, mainLog>>
       ELSE /\ album' = None
            /\ pc' = IF NFiles = 0 THEN "done" ELSE "tag"
            /\ UNCHANGED <<albumRaw, mainLog>>
    /\ UNCHANGED <<clipVars, args, disk, opts, cfg, tracks, live, tagIdx, written, shown,
                   decodeVars, audioVars>>

\* variant: a loop that pairs the paths with the records in reverse order
TagTrack_Reversed ==
    /\ pc = "tag"
    /\ LET k == tagIdx + 1
           path == opts.files[k]
           rg == clipper(tracks[NFiles + 1 - k].rg, opts.max_true_peak_level,
                         cfg.warn_clip, cfg.clip_prevention)
           writes == opts.mode \in {"WriteExtended", "Write"}
           tagged == writes /\ disk[path].tagger = "ok"
           \* todo!() for Mode::Delete, or a panic inside write_tags
           stops == opts.mode = "Delete" \/ (writes /\ ~tagged)
           \* rg.display(..) for OutputMode::Human, todo!() for the other two
           shows == ~stops /\ opts.output = "Human"
       IN  /\ tagIdx' = k
           /\ live' = live \ {tracks[k].e}
           /\ mainLog' = mainLog
                + (IF clipper_warns(tracks[k].rg, opts.max_true_peak_level,
                                    cfg.warn_clip, cfg.clip_prevention) THEN 1 ELSE 0)
           /\ written' = IF tagged
                         THEN Append(written,
                                [path |-> path, track_rg |-> rg, album_rg |-> album,
                                 extended |-> (opts.mode = "WriteExtended"),
                                 unit |-> opts.units])
                         ELSE written
           /\ shown' = IF shows THEN Append(shown, [path |-> path, rg |-> rg]) ELSE shown
           /\ pc' = IF ~shows THEN "panicked"
                    ELSE IF k = NFiles THEN "done" ELSE "tag"
    /\ UNCHANGED <<clipVars, args, disk, opts, cfg, tracks, albumRaw, album,
                   decodeVars, audioVars>>

\* lines 38-79, one iteration of the loop over opts.files zipped with tracks
TagTrack ==
    /\ pc = "tag"
    /\ LET k == tagIdx + 1
           path == opts.files[k]
           rg == clipper(tracks[k].rg, opts.max_true_peak_level,
                         cfg.warn_clip, cfg.clip_prevention)
           writes == opts.mode \in {"WriteExtended", "Write"}
           tagged == writes /\ disk[path].tagger = "ok"
           \* todo!() for Mode::Delete, or a panic inside write_tags
           stops == opts.mode = "Delete" \/ (writes /\ ~tagged)
           \* rg.display(..) for OutputMode::Human, todo!() for the other two
           shows == ~stops /\ opts.output = "Human"
       IN  /\ tagIdx' = k
           /\ live' = live \ {tracks[k].e}
           /\ mainLog' = mainLog
                + (IF clipper_warns(tracks[k].rg, opts.max_true_peak_level,
                                    cfg.warn_clip, cfg.clip_prevention) THEN 1 ELSE 0)
           /\ written' = IF tagged
                         THEN Append(written,
                                [path |-> path, track_rg |-> rg, album_rg |-> album,
                                 extended |-> (opts.mode = "WriteExtended"),
                                 unit |-> opts.units])
                         ELSE written
           /\ shown' = IF shows THEN Append(shown, [path |-> path, rg |-> rg]) ELSE shown
           /\ pc' = IF ~shows THEN "panicked"
                    ELSE IF k = NFiles THEN "done" ELSE "tag"
    /\ UNCHANGED <<clipVars, args, disk, opts, cfg, tracks, albumRaw, album,
                   decodeVars, audioVars>>

Next == ScanTrack \/ Album \/ TagTrack

\* the command lines and file systems main is started with
MyOptions(n) ==
    [files : {[k \in 1..n |-> k]}, album : BOOLEAN, clip : {FALSE}, noclip : {FALSE},
     maxtpl : {None, Some(-2)}, pregain : {None, Some(-5)}, tagmode : Tagmode,
     output : BOOLEAN, output_new : BOOLEAN]

MainStart ==
    /\ pc = (IF NFiles = 0 THEN "album" ELSE "tracks")
    /\ tracks = <<>> /\ live = {} /\ albumRaw = None /\ album = None /\ tagIdx = 0
    /\ written = <<>> /\ shown = <<>> /\ mainLog = 0

Init ==
    /\ ClipIdle /\ DecodeIdle /\ AudioIdle /\ audio = None
    /\ \E n \in 0..MaxFiles :
         /\ args \in MyOptions(n)
         /\ disk \in [1..n -> FileSet]
    /\ opts = parse_arguments(args)
    /\ cfg \in [do_album : BOOLEAN, warn_clip : BOOLEAN, clip_prevention : BOOLEAN]
    /\ MainStart

Spec == Init /\ [][Next]_vars

\* SpecCore: the same pipeline under any configuration record, for what track_rg,
\* album_rg and clipper do with the pre-gain and ceiling they are passed
InitCore ==
    /\ ClipIdle /\ DecodeIdle /\ AudioIdle /\ audio = None
    /\ \E n \in 0..MaxFiles :
         /\ args \in [files : {[k \in 1..n |-> k]}, album : {FALSE}, clip : {FALSE},
                      noclip : {FALSE}, maxtpl : {None}, pregain : {None},
                      tagmode : {"E"}, output : {FALSE}, output_new : {FALSE}]
         /\ disk \in [1..n -> FileSet]
    /\ \E pg \in PregainSet, lvl \in {-1 * DbScale, 0} :
         opts = [parse_arguments(args) EXCEPT !.pre_gain = pg, !.max_true_peak_level = lvl]
    /\ cfg \in [do_album : BOOLEAN, warn_clip : {TRUE}, clip_prevention : BOOLEAN]
    /\ MainStart

SpecCore == InitCore /\ [][Next]_vars

(* ------------------------------------------------------------------ *)
(* audio.rs: Audi::from_file, one file                                 *)
(* ------------------------------------------------------------------ *)
\* what claxon reports for a FLAC file; a sample is Some(value) or None for an Err
SampleSeqs == UNION {[1..n -> {Some(-3), Some(5), None}] : n \in 0..MaxSamples}
FlacBodies ==
    [reader_ok : {TRUE}, bits_per_sample : 0..MaxBits, channels : {2},
     sample_rate : {44100}, samples : SampleSeqs]
    \cup {[reader_ok |-> FALSE, bits_per_sample |-> 16, channels |-> 2,
           sample_rate |-> 44100, samples |-> <<>>]}

\* what symphonia reports for any other file.  A packet holds its track, whether the
\* decoder accepts it, and the samples copy_interleaved_ref yields for it.
PacketSet ==
    {[track_id |-> 0, decode_ok |-> TRUE, data |-> <<1, 2>>],
     [track_id |-> 0, decode_ok |-> TRUE, data |-> <<3>>],
     [track_id |-> 1, decode_ok |-> TRUE, data |-> <<7>>],
     [track_id |-> 0, decode_ok |-> FALSE, data |-> <<>>]}
PacketSeqs == UNION {[1..n -> PacketSet] : n \in 0..MaxPackets}
GenericSound ==
    [probe_ok : {TRUE}, has_track : {TRUE}, codec_ok : {TRUE}, track_id : {0},
     fmt : Format, packets : PacketSeqs, channels : {Some(2)},
     sample_rate : {Some(44100)}, bits_per_sample : {None}]
GenericBroken ==
    LET g == [probe_ok |-> TRUE, has_track |-> TRUE, codec_ok |-> TRUE, track_id |-> 0,
              fmt |-> "S24", packets |-> <<[track_id |-> 0, decode_ok |-> TRUE,
                                            data |-> <<1, 2>>]>>,
              channels |-> Some(1), sample_rate |-> Some(48000),
              bits_per_sample |-> Some(24)]
    IN  {g, [g EXCEPT !.probe_ok = FALSE], [g EXCEPT !.has_track = FALSE],
         [g EXCEPT !.codec_ok = FALSE], [g EXCEPT !.channels = None],
         [g EXCEPT !.sample_rate = None]}
GenericBodies == GenericSound \cup GenericBroken

\* header: what infer::get makes of the first ten bytes ("short": there are not ten)
DecodeFiles ==
    [header : {"flac"}, body : FlacBodies]
    \cup [header : {"audio", "other"}, body : GenericBodies]
    \cup {[header |-> "short", body |-> <<>>]}

InitDecode ==
    /\ ClipIdle /\ MainIdle /\ AudioIdle
    /\ dfile \in DecodeFiles
    /\ dpc = "start" /\ pos = 0 /\ sample_buf = None /\ audio = None /\ audi = None
    /\ dlog = 0

\* from_file, lines 157-171: read the header and choose the reader
Detect ==
    /\ dpc = "start"
    /\ dpc' = CASE dfile.header = "short" -> "panicked"
                [] dfile.header = "flac" -> "flac"
                [] OTHER -> "generic"
    /\ dlog' = dlog + (IF dfile.header = "other" THEN 1 ELSE 0)
    /\ UNCHANGED <<clipVars, mainVars, audioVars, dfile, pos, sample_buf, audio, audi>>

\* from_flac_file, lines 173-188
DecodeFlac ==
    /\ dpc = "flac"
    /\ LET r == from_flac_file(dfile.body)
       IN  IF r.tag = "Ok"
           THEN audi' = Some(r.val[1]) /\ dpc' = "done"
           ELSE audi' = audi /\ dpc' = "panicked"
    /\ UNCHANGED <<clipVars, mainVars, audioVars, dfile, pos, sample_buf, audio, dlog>>

\* from_generic_file, lines 190-214: probe, default track, decoder
OpenGeneric ==
    /\ dpc = "generic"
    /\ dpc' = IF dfile.body.probe_ok /\ dfile.body.has_track /\ dfile.body.codec_ok
              THEN "loop" ELSE "panicked"
    /\ UNCHANGED <<clipVars, mainVars, audioVars, dfile, pos, sample_buf, audio, audi, dlog>>

\* variant: a loop body that decodes the packets of every track
DecodePacket_NoSkip ==
    /\ dpc = "loop"
    /\ pos < Len(dfile.body.packets)
    /\ pos' = pos + 1
    /\ LET packet == dfile.body.packets[pos + 1]
       IN  IF FALSE
           THEN UNCHANGED <<dpc, sample_buf, audio>>
           ELSE IF ~packet.decode_ok
           THEN dpc' = "panicked" /\ UNCHANGED <<sample_buf, audio>>
           ELSE LET variant == IF sample_buf = None
                               THEN AudioSampleBuffer_new(dfile.body.fmt)
                               ELSE sample_buf[1].tag
                    \* buf.copy_interleaved_ref(audio_buf); buf.samples()
                    samples == AudioRef(variant, packet.data)
                    r == IF audio # None THEN extend_from_slice(audio[1], samples)
                         ELSE Ok(to_owned(samples))
                IN  /\ sample_buf' = Some(samples)
                    /\ IF r.tag = "Ok"
                       THEN audio' = Some(r.val[1]) /\ dpc' = dpc
                       ELSE audio' = audio /\ dpc' = "panicked"
    /\ UNCHANGED <<clipVars, mainVars, audioVars, dfile, audi, dlog>>

\* from_generic_file, lines 216-248: one iteration of the while-let loop
DecodePacket ==
    /\ dpc = "loop"
    /\ pos < Len(dfile.body.packets)
    /\ pos' = pos + 1
    /\ LET packet == dfile.body.packets[pos + 1]
       IN  IF packet.track_id # dfile.body.track_id
           THEN UNCHANGED <<dpc, sample_buf, audio>>
           ELSE IF ~packet.decode_ok
           THEN dpc' = "panicked" /\ UNCHANGED <<sample_buf, audio>>
           ELSE LET variant == IF sample_buf = None
                               THEN AudioSampleBuffer_new(dfile.body.fmt)
                               ELSE sample_buf[1].tag
                    \* buf.copy_interleaved_ref(audio_buf); buf.samples()
                    samples == AudioRef(variant, packet.data)
                    r == IF audio # None THEN extend_from_slice(audio[1], samples)
                         ELSE Ok(to_owned(samples))
                IN  /\ sample_buf' = Some(samples)
                    /\ IF r.tag = "Ok"
                       THEN audio' = Some(r.val[1]) /\ dpc' = dpc
                       ELSE audio' = audio /\ dpc' = "panicked"
    /\ UNCHANGED <<clipVars, mainVars, audioVars, dfile, audi, dlog>>

\* from_generic_file, lines 216 and 250-258: next_packet returned Err; build the Audi
FinishGeneric ==
    /\ dpc = "loop"
    /\ pos = Len(dfile.body.packets)
    /\ IF audio = None \/ dfile.body.channels = None \/ dfile.body.sample_rate = None
       THEN audi' = audi /\ dpc' = "panicked"
       ELSE /\ audi' = Some([audio |-> audio[1],
                             channels |-> dfile.body.channels[1],
                             sample_rate |-> dfile.body.sample_rate[1],
                             bits |-> IF dfile.body.bits_per_sample = None THEN 0
                                      ELSE dfile.body.bits_per_sample[1] % 256])
            /\ dpc' = "done"
    /\ UNCHANGED <<clipVars, mainVars, audioVars, dfile, pos, sample_buf, audio, dlog>>

NextDecode == Detect \/ DecodeFlac \/ OpenGeneric \/ DecodePacket \/ FinishGeneric

SpecDecode == InitDecode /\ [][NextDecode]_vars

(* ------------------------------------------------------------------ *)
(* audio.rs: Audio::extend_from_slice on any buffer and any slice      *)
(* ------------------------------------------------------------------ *)
SliceSet == {AudioRef(d, s) : d \in Domain, s \in {<<0>>, <<1>>, <<0, 1>>}}

InitAudio ==
    /\ ClipIdle /\ MainIdle
    /\ dfile = <<>> /\ pos = 0 /\ sample_buf = None /\ audi = None /\ dlog = 0
    /\ dpc = "buffer"
    /\ \E first \in SliceSet : audio = Some(to_owned(first)) /\ created = first.tag
    /\ slice = None

\* one call audio.extend_from_slice(samples)
Extend ==
    /\ dpc = "buffer"
    /\ \E samples \in SliceSet :
         /\ Len(audio[1].data) + Len(samples.data) <= MaxBufLen
         /\ slice' = Some(samples)
         /\ LET r == extend_from_slice(audio[1], samples)
            IN  IF r.tag = "Ok"
                THEN audio' = Some(r.val[1]) /\ dpc' = dpc
                ELSE audio' = audio /\ dpc' = "panicked"
    /\ UNCHANGED <<clipVars, mainVars, dfile, pos, sample_buf, audi, dlog, created>>

NextAudio == Extend

SpecAudio == InitAudio /\ [][NextAudio]_vars

(* ------------------------------------------------------------------ *)
(* Claims on decoding and on the sample buffer                         *)
(* ------------------------------------------------------------------ *)
\* every element of the buffer is of the buffer's variant
Homogeneous(a) == \A k \in 1..Len(a.data) : a.data[k][1] = a.tag

\* C9: the sample domain follows from the source format alone.  FLAC path: a bit
\* depth below 17 gives the 16-bit domain, 17..32 the 32-bit domain with every sample
\* shifted left by (32 - bits), any other depth is fatal.  Generic path: U8/U16/S8/S16
\* give the 16-bit domain, U24/U32/S24/S32 the 32-bit one, F32 and F64 their own.
C9_DomainFromFormat ==
    /\ (dfile.header = "flac" /\ dpc = "done") =>
         LET bits == dfile.body.bits_per_sample
             a == audi[1].audio
         IN  /\ bits <= 32
             /\ bits < 17 => a.tag = "S16"
             /\ bits >= 17 =>
                  /\ a.tag = "S32"
                  /\ Len(a.data) = Len(dfile.body.samples)
                  /\ \A k \in 1..Len(a.data) :
                       a.data[k] = <<"S32", dfile.body.samples[k][1] * (2 ^ (32 - bits))>>
    /\ (dfile.header = "flac" /\ dpc \in {"done", "panicked"}
          /\ dfile.body.bits_per_sample > 32) => dpc = "panicked"
    /\ (dfile.header \in {"audio", "other"} /\ audio # None) =>
         LET fmt == dfile.body.fmt
         IN  /\ fmt \in {"U8", "U16", "S8", "S16"} => audio[1].tag = "S16"
             /\ fmt \in {"U24", "U32", "S24", "S32"} => audio[1].tag = "S32"
             /\ fmt = "F32" => audio[1].tag = "F32"
             /\ fmt = "F64" => audio[1].tag = "F64"
             /\ sample_buf[1].tag = audio[1].tag
             /\ audi # None => audi[1].audio.tag = audio[1].tag

\* C9 witness: a 24-bit source decoded on the generic path into the 32-bit domain
C9_Witness ==
    /\ dfile.header = "audio" /\ dfile.body.fmt = "U24" /\ dpc = "done"
    /\ audi[1].audio.tag = "S32" /\ Len(audi[1].audio.data) >= 2

\* a 20-bit FLAC stream decoded into the 32-bit domain, its samples shifted by 12
FlacShiftReached ==
    /\ dfile.header = "flac" /\ dpc = "done" /\ dfile.body.bits_per_sample = 20
    /\ audi[1].audio.data = <<<<"S32", 20480>>, <<"S32", -12288>>>>

\* C10: a sample buffer is homogeneous for its whole life: its variant is the one it
\* was created with after any sequence of appends, every sample in it is of that
\* variant, and appending a slice of another variant fails and leaves no mixed buffer.
C10_BufferHomogeneous ==
    /\ audio[1].tag = created
    /\ Homogeneous(audio[1])
    /\ slice # None =>
         ((slice[1].tag # created) <=> (dpc = "panicked"))

\* C10 witness: a buffer that grew by an append and then refused a slice of another
\* variant
C10_Witness ==
    /\ dpc = "panicked" /\ slice # None /\ slice[1].tag # created
    /\ Len(audio[1].data) >= 3 /\ Homogeneous(audio[1])

(* ------------------------------------------------------------------ *)
(* Claims on main, track_rg and album_rg                               *)
(* ------------------------------------------------------------------ *)
RunEnded == pc \in {"done", "panicked"}
FileOf(k) == disk[opts.files[k]]

\* C1: a decode or measurement failure of one file does not abort the run: when the
\* run has ended, every file of the batch that decodes and measures has been measured
\* and has its own ReplayGain record.
C1_FailureIsolated ==
    RunEnded => \A k \in 1..NFiles : FileOk(FileOf(k)) => k <= Len(tracks)

\* C5: every track's gain before clip prevention, and the album's, is
\* (-18 - loudness) + pre_gain, with loudness the measured (or pooled) loudness;
\* loudness -18 with pre-gain 0 and loudness -23 with pre-gain -5 give gain 0.
C5_GainFormula ==
    /\ \A k \in 1..Len(tracks) :
         /\ tracks[k].rg.loudness = FileOf(k).global
         /\ tracks[k].rg.gain = ((-18 * DbScale) - FileOf(k).global) + opts.pre_gain
         /\ (FileOf(k).global = -18 * DbScale /\ opts.pre_gain = 0) => tracks[k].rg.gain = 0
         /\ (FileOf(k).global = -23 * DbScale /\ opts.pre_gain = -5 * DbScale)
               => tracks[k].rg.gain = 0
    /\ albumRaw # None =>
         albumRaw[1].gain = ((-18 * DbScale) - albumRaw[1].loudness) + opts.pre_gain

\* C5 witness: a track of loudness -23 scanned with pre-gain -5, and the album computed
C5_Witness ==
    /\ albumRaw # None /\ opts.pre_gain = -5 * DbScale
    /\ \E k \in 1..Len(tracks) : tracks[k].rg.loudness = -23 * DbScale /\ tracks[k].rg.gain = 0

\* C6 as stated: loudness_reference of every track record and of the album record is
\* the negated pre-gain.
C6_ReferenceIsNegatedPregain ==
    /\ \A k \in 1..Len(tracks) : tracks[k].rg.loudness_reference = -opts.pre_gain
    /\ albumRaw # None => albumRaw[1].loudness_reference = -opts.pre_gain

\* C6 amended: loudness_reference of every track record and of the album record is
\* lufs_to_rg(-pre_gain) = -18 + pre_gain, the reference loudness in LUFS.
C6_ReferenceIsTargetLoudness ==
    /\ \A k \in 1..Len(tracks) :
         tracks[k].rg.loudness_reference = (-18 * DbScale) + opts.pre_gain
    /\ albumRaw # None => albumRaw[1].loudness_reference = (-18 * DbScale) + opts.pre_gain
    /\ album # None => album[1].loudness_reference = (-18 * DbScale) + opts.pre_gain

\* C6 witness: track and album records computed under a non-zero pre-gain
C6_Witness == Len(tracks) >= 1 /\ album # None /\ opts.pre_gain > 0

TrackPeaks == {tracks[k].rg.peak : k \in 1..Len(tracks)}

\* C7: the album record's peak is the maximum of the track records' peaks, whatever
\* the order of the tracks.
C7_AlbumPeakIsMax ==
    albumRaw # None =>
        /\ albumRaw[1].peak \in TrackPeaks
        /\ \A p \in TrackPeaks : p <= albumRaw[1].peak
        /\ album[1].peak = albumRaw[1].peak

\* C7 witness: an album over two tracks whose larger peak comes first
C7_Witness ==
    /\ albumRaw # None /\ Len(tracks) = 2
    /\ tracks[1].rg.peak > tracks[2].rg.peak
    /\ albumRaw[1].peak = tracks[1].rg.peak

\* C8: in album mode, album aggregation runs only once every track of the batch is
\* measured and its context exists, and a context is released only after album
\* aggregation has completed.
C8_AlbumBarrier ==
    [][/\ albumRaw' # albumRaw =>
            (Len(tracks) = NFiles /\ live = 1..NFiles /\ live' = live)
       /\ (cfg.do_album /\ live' # live /\ (live \ live') # {}) => albumRaw # None
      ]_vars

\* C8 witness: album mode, two tracks, the first context released after aggregation
C8_Witness ==
    /\ cfg.do_album /\ NFiles = 2 /\ albumRaw # None
    /\ tagIdx = 1 /\ live = {2}

(* ------------------------------------------------------------------ *)
(* Claims on clipper (SpecClip)                                        *)
(* ------------------------------------------------------------------ *)
ClipCalled == Len(clipOut) >= 1
ClipLimit == dbtp_to_lufs(clipCfg.level)
\* the dB amount by which the predicted peak of the input exceeds the ceiling
ClipExcess == lufs_to_dbtp(AmpDiv(NewPeak(clipIn), ClipLimit))
PreventCase == ClipCalled /\ clipCfg.prevent /\ WillClip(clipIn, clipCfg.level)

C3_Idempotent == Len(clipOut) = 2 => clipOut[2] = clipOut[1]

\* C4: clipper returns a record different from its input only when the predicted
\* peak exceeds the ceiling and prevent is set; then only gain differs; the input is
\* left as it was; with prevent and warn both set the gain is corrected and nothing
\* is logged (a warning is logged only for warn without prevent).
C4_ClipperFrame ==
    ClipCalled =>
        /\ clipOut[1] # clipIn => (WillClip(clipIn, clipCfg.level) /\ clipCfg.prevent)
        /\ ~(WillClip(clipIn, clipCfg.level) /\ clipCfg.prevent) => clipOut[1] = clipIn
        /\ \A f \in {"peak", "loudness_range", "loudness_reference", "loudness"} :
              clipOut[1][f] = clipIn[f]
        /\ PreventCase => (clipOut[1].gain = clipIn.gain - ClipExcess /\ clipLog = 0)
        /\ clipLog > 0 => (clipCfg.warn /\ ~clipCfg.prevent)

\* C4 witness: warn and prevent both set, the peak exceeded, and only gain changed
C4_Witness ==
    /\ PreventCase /\ clipCfg.warn
    /\ clipOut[1] # clipIn
    /\ clipOut[1] = [clipIn EXCEPT !.gain = clipOut[1].gain]

(* ------------------------------------------------------------------ *)
(* Claims on the command line and on what reaches the tag writer       *)
(* ------------------------------------------------------------------ *)
\* C11: the tag mode letter selects the documented action and unit: 'i' hands the
\* tag writer the standard tags only (extended off, dB), 'e' the extended set in dB,
\* 'l' the extended set in LU, 's' writes nothing, and 'd' deletes the tags of each
\* file (so a run that only deletes and displays comes to its end).
C11_TagmodeAction ==
    /\ \A i \in 1..Len(written) :
         /\ args.tagmode = "I" => (~written[i].extended /\ written[i].unit = "dB")
         /\ args.tagmode = "E" => (written[i].extended /\ written[i].unit = "dB")
         /\ args.tagmode = "L" => (written[i].extended /\ written[i].unit = "LU")
    /\ args.tagmode \in {"S", "D"} => written = <<>>
    /\ (args.tagmode = "D" /\ opts.output = "Human" /\ tagIdx >= 1) => pc # "panicked"

\* C12: the configuration of the command line is the one the core uses: the pre-gain
\* of -d is the pre-gain of every gain, the ceiling of -K is the ceiling of clip
\* prevention (-1.0 dBTP when omitted), and the album, clip-warn and clip-prevent
\* toggles reach the core as given.
C12_ConfigReachesCore ==
    Len(tracks) >= 1 =>
    /\ opts.pre_gain = (IF args.pregain = None THEN 0 ELSE args.pregain[1] * DbScale)
    /\ opts.max_true_peak_level =
         (IF args.maxtpl = None THEN -1 * DbScale ELSE args.maxtpl[1] * DbScale)
    /\ cfg.do_album = args.album
    /\ cfg.warn_clip = ~args.clip
    /\ cfg.clip_prevention = (args.noclip \/ args.maxtpl # None)
    /\ \A k \in 1..Len(tracks) :
         tracks[k].rg.gain = lufs_to_rg(FileOf(k).global)
             + (IF args.pregain = None THEN 0 ELSE args.pregain[1] * DbScale)

\* the samples of the selected track's packets among the first n, in packet order
RECURSIVE SelectedData(_, _, _)
SelectedData(packets, track_id, n) ==
    IF n = 0 THEN <<>>
    ELSE SelectedData(packets, track_id, n - 1)
         \o (IF packets[n].track_id = track_id THEN packets[n].data ELSE <<>>)

Selected(k) == dfile.body.packets[k].track_id = dfile.body.track_id
InGenericLoop == dfile.header \in {"audio", "other"} /\ dpc \in {"loop", "done"}
GenericPanicked ==
    /\ dfile.header \in {"audio", "other"} /\ dpc = "panicked"
    /\ dfile.body.probe_ok /\ dfile.body.has_track /\ dfile.body.codec_ok

C14_NoRecordClips ==
    /\ (album # None /\ albumRaw # None) =>
         album[1] = clipper(albumRaw[1], opts.max_true_peak_level,
                            cfg.warn_clip, cfg.clip_prevention)
    /\ cfg.clip_prevention =>
         /\ \A i \in 1..Len(written) :
              /\ ~WillClip(written[i].track_rg, opts.max_true_peak_level)
              /\ written[i].album_rg # None =>
                   ~WillClip(written[i].album_rg[1], opts.max_true_peak_level)
         /\ \A i \in 1..Len(shown) : ~WillClip(shown[i].rg, opts.max_true_peak_level)

\* the record main derives for the i-th path: track_rg of that file, then clipper
RecordOf(i) ==
    clipper(track_rg(FileOf(i), opts.pre_gain).val[1], opts.max_true_peak_level,
            cfg.warn_clip, cfg.clip_prevention)

\* C15: the i-th path is handed to the tag writer (and displayed) with the record
\* computed from the i-th file and no other; in album mode the same album record
\* accompanies every file, and none does when album mode is off.
C15_PathPairedWithRecord ==
    /\ \A i \in 1..Len(written) :
         /\ written[i].path = opts.files[i]
         /\ written[i].track_rg = RecordOf(i)
         /\ written[i].album_rg = album
         /\ cfg.do_album <=> (written[i].album_rg # None)
    /\ \A i \in 1..Len(shown) :
         /\ shown[i].path = opts.files[i]
         /\ shown[i].rg = RecordOf(i)

\* C15 witness: two files with different records, both handed to the tag writer
\* with the album record
C15_Witness ==
    /\ Len(written) = 2 /\ cfg.do_album
    /\ written[1].track_rg # written[2].track_rg
    /\ written[1].album_rg # None /\ written[2].album_rg = written[1].album_rg

====
